---- MODULE Spec2Model ----
(***************************************************************************)
(* A model of script.js: a photo gallery that keeps image blobs in one     *)
(* IndexedDB object store and renders them into a grid.                    *)
(*                                                                         *)
(* The page is one event loop.  Each action below is one task of that loop *)
(* together with the microtasks it runs: a user event handler, or the      *)
(* delivery of one IndexedDB event (success / error of a request, commit / *)
(* abort of a transaction) with the promise continuations it resumes.      *)
(*                                                                         *)
(* IndexedDB itself is the environment.  It is modelled by the rules the   *)
(* code relies on when it calls db.transaction(STORE_NAME, mode):          *)
(*   - a readwrite transaction starts when every transaction created       *)
(*     before it on the store has finished;                                *)
(*   - a readonly transaction starts when every readwrite transaction      *)
(*     created before it has finished;                                     *)
(*   - a request's success event is delivered while its transaction is     *)
(*     still active; the transaction commits afterwards, and the commit    *)
(*     can fail (quota, I/O), which aborts the transaction and rolls back  *)
(*     what its requests did, the key generator included.                  *)
(***************************************************************************)
EXTENDS Integers, Sequences, FiniteSets, TLC

(* ---------------- bounds of the model ---------------- *)

\* user inputs in one session: files handed to handleFiles plus confirmed
\* Delete / Clear all clicks
MaxInputs == 2
\* openDB calls in a row when openDB is exercised on its own
MaxOpens == 2
\* largest id of a record left by an earlier session
MaxPriorId == 2
\* longest file name when the rendering of names is exercised on its own
MaxNameLen == 5

(* ---------------- constants of script.js ---------------- *)

DB_NAME == "galleryDB"
DB_VERSION == 1
STORE_NAME == "images"

(* ---------------- strings ---------------- *)
\* A string is a sequence of one-character strings.

ImagePrefix == <<"i", "m", "a", "g", "e", "/">>

\* String.prototype.startsWith
StartsWith(s, p) ==
  /\ Len(s) >= Len(p)
  /\ SubSeq(s, 1, Len(p)) = p

\* a replacer whose character class and table lack the apostrophe
EscapeCharNoApostrophe(c) ==
  CASE c = "&" -> <<"&", "a", "m", "p", ";">>
    [] c = "<" -> <<"&", "l", "t", ";">>
    [] c = ">" -> <<"&", "g", "t", ";">>
    [] c = "\"" -> <<"&", "q", "u", "o", "t", ";">>
    [] OTHER -> <<c>>

\* the replacer of escapeHtml: one character to its entity
EscapeChar(c) ==
  CASE c = "&" -> <<"&", "a", "m", "p", ";">>
    [] c = "<" -> <<"&", "l", "t", ";">>
    [] c = ">" -> <<"&", "g", "t", ";">>
    [] c = "\"" -> <<"&", "q", "u", "o", "t", ";">>
    [] c = "'" -> <<"&", "#", "3", "9", ";">>
    [] OTHER -> <<c>>

RECURSIVE escapeHtml(_)
escapeHtml(s) ==
  IF s = <<>> THEN <<>> ELSE EscapeChar(Head(s)) \o escapeHtml(Tail(s))

\* a || b on strings: the empty string is falsy
OrElse(s, d) == IF s = <<>> THEN d ELSE s

Digit(n) == <<"0", "1", "2", "3", "4", "5", "6", "7", "8", "9">>[n + 1]

\* `${item.id}`: the decimal digits of a non-negative integer
RECURSIVE ToDigits(_)
ToDigits(n) ==
  IF n < 10 THEN <<Digit(n)>> ELSE ToDigits(n \div 10) \o <<Digit(n % 10)>>

DigitValue(c) == CHOOSE n \in 0..9 : Digit(n) = c

\* Number(ev.currentTarget.dataset.id) on a string of decimal digits
RECURSIVE Number(_)
Number(s) ==
  IF s = <<>> THEN 0
  ELSE 10 * Number(SubSeq(s, 1, Len(s) - 1)) + DigitValue(s[Len(s)])

(* ---------------- files the user can hand over ---------------- *)

\* two image files and one text file
Files ==
  { [name |-> <<"a">>, type |-> ImagePrefix \o <<"p", "n", "g">>, blob |-> "blobA"],
    [name |-> <<"<", "b", ">">>, type |-> ImagePrefix \o <<"g", "i", "f">>, blob |-> "blobB"],
    [name |-> <<"n", "o", "t", "e">>, type |-> <<"t", "e", "x", "t", "/", "p", "l", "a", "i", "n">>,
     blob |-> "blobT"] }

\* the FileLists of a drop / change event, of at most n files
Batches(n) == UNION { [1..k -> Files] : k \in 1..n }

\* the values Date.now() takes
Times == {1, 2}

(* ---------------- state ---------------- *)

VARIABLES
  \* the origin's IndexedDB storage (survives the page)
  databases,      \* names of the databases that exist
  dbVersion,      \* version of galleryDB, 0 while it does not exist
  storeNames,     \* object stores of galleryDB
  records,        \* records of the images store
  keyGen,         \* key generator of the images store: the next id
  \* the page
  db,             \* let db: 0 while unset, else the number of the connection
  connections,    \* connections opened by indexedDB.open so far
  initState,      \* init(): "opening", "ready" or "failed"
  txs,            \* unfinished transactions, in creation order
  galleryGrid,    \* galleryGrid.innerHTML: a message or the cards
  uploadPreview,  \* number of preview thumbnails appended to uploadPreview
  readers,        \* number of FileReaders whose load has not fired yet
  \* bookkeeping
  handed,         \* files handed to handleFiles so far
  clicks,         \* confirmed destructive clicks so far
  opens,          \* openDB calls so far
  lastEvent,      \* what the last task did
  reported,       \* the store as the promises' outcomes describe it
  lastWrite,      \* the last write whose promise resolved
  assigned,       \* the highest id an add request has resolved with so far
  dirty           \* a refresh's getAllImages rejected after the last render

disk == <<databases, dbVersion, storeNames, records, keyGen>>
page == <<db, connections, initState, txs, galleryGrid, uploadPreview, readers>>
book == <<handed, clicks, opens, lastEvent, reported, lastWrite, assigned, dirty>>
vars == <<disk, page, book>>

(* ---------------- records, transactions, events ---------------- *)

NoItem == [name |-> <<>>, blob |-> "", created |-> 0]

NoUndo == [records |-> {}, keyGen |-> 0]

\* db.transaction(STORE_NAME, mode) with its one request, not yet processed
NewTx(kind, item, id) ==
  [kind |-> kind, st |-> "pending", item |-> item, id |-> id, undo |-> NoUndo]

\* what one task did: the handler that ran, its input, the store functions it
\* called, what it passed to console.error, the result it received, whether it
\* ended in a promise rejection that nothing handles and, for a request or the
\* end of a transaction, the item it is about and the records it started from
Event(type) ==
  [type |-> type, files |-> <<>>, ops |-> <<>>, log |-> <<>>, id |-> 0,
   confirmed |-> FALSE, items |-> <<>>, kind |-> "", before |-> {},
   item |-> NoItem, rejected |-> FALSE]

Remove(s, i) == SubSeq(s, 1, i - 1) \o SubSeq(s, i + 1, Len(s))

ToSet(s) == { s[i] : i \in 1..Len(s) }

(* ---------------- the environment: IndexedDB ---------------- *)

ReadOnly(t) == t.kind = "getAll"

\* the transaction scheduling of IndexedDB for the modes the code asks for
CanStart(q, i) ==
  IF ReadOnly(q[i])
    THEN \A j \in 1..(i - 1) : ReadOnly(q[j])
    ELSE i = 1

\* store.getAll(): the records in ascending key order
RECURSIVE KeyOrder(_)
KeyOrder(S) ==
  IF S = {} THEN <<>>
  ELSE LET r == CHOOSE x \in S : \A y \in S : x.id <= y.id
       IN <<r>> \o KeyOrder(S \ {r})

\* store.add(item) under keyPath 'id', autoIncrement: the key generator's id
Added(S, k, item) ==
  S \cup {[id |-> k, name |-> item.name, blob |-> item.blob, created |-> item.created]}

\* a delete of the key range up to id
DeletedThrough(S, id) == { r \in S : r.id > id }

\* store.delete(id)
Deleted(S, id) == { r \in S : r.id # id }

(* ---------------- openDB ---------------- *)

\* indexedDB.open(DB_NAME, DB_VERSION) fires upgradeneeded when the stored
\* version is lower than the requested one (0 for a database that is new)
UpgradeNeeded == dbVersion < DB_VERSION

\* an upgrade handler that builds the store anew on every open
CreatesStoreAgain == TRUE

\* the onupgradeneeded handler creates the store unless it is there
CreatesStore == UpgradeNeeded /\ STORE_NAME \notin storeNames

\* what a successful open leaves in the origin's storage
OpenedDisk ==
  /\ databases' = databases \cup {DB_NAME}
  /\ dbVersion' = IF UpgradeNeeded THEN DB_VERSION ELSE dbVersion
  /\ IF CreatesStore
       THEN /\ storeNames' = storeNames \cup {STORE_NAME}
            /\ records' = {}
            /\ keyGen' = 1
       ELSE UNCHANGED <<storeNames, records, keyGen>>

\* req.onsuccess: db = e.target.result, a new connection
OpenedHandle ==
  /\ connections' = connections + 1
  /\ db' = connections + 1

(* ---------------- the store functions ---------------- *)

\* getAllImages(): the readonly transaction and its getAll request
getAllImages(q) == Append(q, NewTx("getAll", NoItem, 0))

\* addImageBlob(name, blob): item = {name, blob, created: Date.now()}
addImageBlob(q, name, blob, now) ==
  Append(q, NewTx("add", [name |-> name, blob |-> blob, created |-> now], 0))

\* deleteImageById(id)
deleteImageById(q, id) == Append(q, NewTx("delete", NoItem, id))

\* clearAllImages()
clearAllImages(q) == Append(q, NewTx("clear", NoItem, 0))

(* ---------------- refreshGallery ---------------- *)

\* the comparator with its operands swapped: oldest first
CompareOldestFirst(a, b) == a.created - b.created

\* the comparator of items.sort
Compare(a, b) == b.created - a.created

\* Array.prototype.sort is stable: x goes before the first element that the
\* comparator puts after it
InsertSorted(s, x) ==
  LET later == { i \in 1..Len(s) : Compare(s[i], x) > 0 }
      at == IF later = {} THEN Len(s) + 1
            ELSE CHOOSE i \in later : \A j \in later : i <= j
  IN SubSeq(s, 1, at - 1) \o <<x>> \o SubSeq(s, at, Len(s))

RECURSIVE SortNewestFirst(_)
SortNewestFirst(items) ==
  IF items = <<>> THEN <<>>
  ELSE InsertSorted(SortNewestFirst(SubSeq(items, 1, Len(items) - 1)), items[Len(items)])

\* one card-item: the object URL of the blob, the escaped name twice, data-id
Card(item) ==
  [href |-> item.blob,
   alt |-> escapeHtml(OrElse(item.name, <<"p", "h", "o", "t", "o">>)),
   label |-> escapeHtml(OrElse(item.name, <<"U", "n", "t", "i", "t", "l", "e", "d">>)),
   dataId |-> ToDigits(item.id)]

\* refreshGallery without galleryGrid.innerHTML = ''
NotEmptied(view) == view

\* galleryGrid.innerHTML = ''
Emptied(view) == [msg |-> "", cards |-> <<>>]

\* the rest of refreshGallery on the view: with no item the placeholder is
\* assigned to innerHTML, else one card per item is appended
Filled(view, items) ==
  IF Len(items) = 0
    THEN [msg |-> "No photos yet", cards |-> <<>>]
    ELSE [msg |-> view.msg,
          cards |-> view.cards \o [i \in 1..Len(items) |-> Card(items[i])]]

\* galleryGrid after a render from nothing: the placeholder, or one card per
\* item
Render(items) == Filled([msg |-> "", cards |-> <<>>], items)

(* ---------------- handleFiles ---------------- *)

\* handleFiles without its type filter
AcceptsAll(file) == TRUE

\* the filter of handleFiles
Accepts(file) == StartsWith(file.type, ImagePrefix)

Accepted(files) == SelectSeq(files, Accepts)

\* the forEach body for the accepted files, in order: addImageBlob(file.name, blob)
RECURSIVE StoreAll(_, _, _)
StoreAll(q, files, now) ==
  IF files = <<>> THEN q
  ELSE StoreAll(addImageBlob(q, Head(files).name, Head(files).blob, Head(now)),
                Tail(files), Tail(now))

\* the continuation without its refreshGallery() call
AfterAddNoRefresh(q) == q

\* .then(() => { refreshGallery(); }) of handleFiles
AfterAdd(q) == getAllImages(q)

\* await deleteImageById(id); refreshGallery();
AfterDelete(q) == getAllImages(q)

\* await clearAllImages(); refreshGallery();
AfterClear(q) == getAllImages(q)

\* the handler without its confirm() gate
ProceedsAlways(ok) == TRUE

\* if (!confirm(...)) return;
Proceeds(ok) == ok

(* ---------------- initial states ---------------- *)

ImageFiles == { f \in Files : Accepts(f) }

\* records an earlier session can have left
RecordUniverse ==
  { [id |-> i, name |-> f.name, blob |-> f.blob, created |-> t] :
      i \in 1..MaxPriorId, f \in ImageFiles, t \in Times }

RecordSets ==
  { S \in SUBSET RecordUniverse : \A r1, r2 \in S : r1.id = r2.id => r1 = r2 }

MaxId(S) == IF S = {} THEN 0 ELSE CHOOSE k \in { r.id : r \in S } : \A r \in S : r.id <= k

\* no database yet
FreshDisk ==
  /\ databases = {}
  /\ dbVersion = 0
  /\ storeNames = {}
  /\ records = {}
  /\ keyGen = 1

\* galleryDB as an earlier session left it: the records S, and a key generator
\* beyond every id it has handed out
UsedDisk(S, k) ==
  /\ databases = {DB_NAME}
  /\ dbVersion = DB_VERSION
  /\ storeNames = {STORE_NAME}
  /\ records = S
  /\ keyGen = k
  /\ keyGen > MaxId(records)

\* three records of an earlier session, created at 100, 300 and 200
Album ==
  { [id |-> 1, name |-> <<"a">>, blob |-> "blobA", created |-> 100],
    [id |-> 2, name |-> <<"<", "b", ">">>, blob |-> "blobB", created |-> 300],
    [id |-> 3, name |-> <<"a">>, blob |-> "blobA", created |-> 200] }

\* the page right after the script has run: init() awaits openDB()
FreshPage ==
  /\ db = 0
  /\ connections = 0
  /\ txs = <<>>
  /\ galleryGrid = [msg |-> "", cards |-> <<>>]
  /\ uploadPreview = 0
  /\ readers = 0
  /\ handed = 0
  /\ clicks = 0
  /\ reported = records
  /\ lastWrite = "none"
  /\ assigned = keyGen - 1
  /\ dirty = FALSE

Init ==
  /\ \/ FreshDisk
     \/ UsedDisk({}, 2)
     \/ UsedDisk(Album, 4)
  /\ FreshPage
  /\ initState = "opening"
  /\ opens = 1
  /\ lastEvent = Event("load")

(* ---------------- init ---------------- *)

\* await openDB() resolves; refreshGallery()
OpenDBSuccess ==
  /\ initState = "opening"
  /\ OpenedDisk
  /\ OpenedHandle
  /\ initState' = "ready"
  /\ txs' = getAllImages(txs)
  /\ lastEvent' = [Event("openDBSuccess") EXCEPT !.ops = <<"getAllImages">>]
  /\ UNCHANGED <<galleryGrid, uploadPreview, readers>>
  /\ UNCHANGED <<handed, clicks, opens, reported, lastWrite, assigned, dirty>>

\* await openDB() rejects: the catch block
OpenDBError ==
  /\ initState = "opening"
  /\ initState' = "failed"
  /\ galleryGrid' = [msg |-> "Browser storage is not available", cards |-> <<>>]
  /\ lastEvent' = [Event("openDBError") EXCEPT !.log = <<"Failed to open DB">>]
  /\ UNCHANGED <<disk, db, connections, txs, uploadPreview, readers>>
  /\ UNCHANGED <<handed, clicks, opens, reported, lastWrite, assigned, dirty>>

(* ---------------- user events ---------------- *)

\* drop / change: handleFiles(files).  With db unset db.transaction throws in
\* the promise executor, the promise rejects and the catch logs it.
HandleFiles ==
  /\ \E files \in Batches(MaxInputs - handed - clicks) :
       LET acc == Accepted(files)
           n == Len(acc)
       IN /\ handed' = handed + Len(files)
          /\ readers' = readers + n
          /\ IF db = 0
               THEN txs' = txs
               ELSE \E now \in [1..n -> Times] : txs' = StoreAll(txs, acc, now)
          /\ lastEvent' = [Event("handleFiles") EXCEPT
                             !.files = files,
                             !.ops = [i \in 1..n |-> "addImageBlob"],
                             !.log = IF db = 0 THEN [i \in 1..n |-> "DB add error"] ELSE <<>>]
  /\ UNCHANGED <<disk, db, connections, initState, galleryGrid, uploadPreview>>
  /\ UNCHANGED <<clicks, opens, reported, lastWrite, assigned, dirty>>

\* reader.onload: the preview thumbnail
PreviewLoad ==
  /\ readers > 0
  /\ readers' = readers - 1
  /\ uploadPreview' = uploadPreview + 1
  /\ lastEvent' = Event("readerLoad")
  /\ UNCHANGED <<disk, db, connections, initState, txs, galleryGrid>>
  /\ UNCHANGED <<handed, clicks, opens, reported, lastWrite, assigned, dirty>>

\* click on the Delete button of a card
ClickDelete ==
  /\ \E i \in 1..Len(galleryGrid.cards), ok \in BOOLEAN :
       LET id == Number(galleryGrid.cards[i].dataId)
           ev == [Event("deleteClick") EXCEPT !.id = id, !.confirmed = ok]
       IN IF Proceeds(ok)
            THEN /\ handed + clicks < MaxInputs
                 /\ clicks' = clicks + 1
                 /\ txs' = IF db = 0 THEN txs ELSE deleteImageById(txs, id)
                 /\ lastEvent' = [ev EXCEPT !.ops = <<"deleteImageById">>, !.rejected = (db = 0)]
            ELSE /\ lastEvent' = ev
                 /\ UNCHANGED <<clicks, txs>>
  /\ UNCHANGED <<disk, db, connections, initState, galleryGrid, uploadPreview, readers>>
  /\ UNCHANGED <<handed, opens, reported, lastWrite, assigned, dirty>>

\* click on clearAllBtn
ClickClearAll ==
  /\ \E ok \in BOOLEAN :
       LET ev == [Event("clearAllClick") EXCEPT !.confirmed = ok]
       IN IF Proceeds(ok)
            THEN /\ handed + clicks < MaxInputs
                 /\ clicks' = clicks + 1
                 /\ txs' = IF db = 0 THEN txs ELSE clearAllImages(txs)
                 /\ lastEvent' = [ev EXCEPT !.ops = <<"clearAllImages">>, !.rejected = (db = 0)]
            ELSE /\ lastEvent' = ev
                 /\ UNCHANGED <<clicks, txs>>
  /\ UNCHANGED <<disk, db, connections, initState, galleryGrid, uploadPreview, readers>>
  /\ UNCHANGED <<handed, opens, reported, lastWrite, assigned, dirty>>

(* ---------------- IndexedDB events and the continuations they resume ---------------- *)

\* what the transaction found when it started, kept for a rollback
Started == [records |-> records, keyGen |-> keyGen]

\* add request: onsuccess, resolve(req.result), then refreshGallery()
AddSuccess ==
  /\ \E i \in 1..Len(txs) :
       /\ txs[i].kind = "add"
       /\ txs[i].st = "pending"
       /\ CanStart(txs, i)
       /\ records' = Added(records, keyGen, txs[i].item)
       /\ keyGen' = keyGen + 1
       /\ txs' = AfterAdd([txs EXCEPT ![i].st = "succeeded", ![i].undo = Started])
       /\ reported' = Added(Deleted(reported, keyGen), keyGen, txs[i].item)
       /\ lastEvent' = [Event("addSuccess") EXCEPT
                          !.kind = "add", !.id = keyGen, !.ops = <<"getAllImages">>,
                          !.item = txs[i].item, !.before = records]
  /\ lastWrite' = "add"
  /\ assigned' = IF keyGen > assigned THEN keyGen ELSE assigned
  /\ UNCHANGED <<databases, dbVersion, storeNames>>
  /\ UNCHANGED <<db, connections, initState, galleryGrid, uploadPreview, readers>>
  /\ UNCHANGED <<handed, clicks, opens, dirty>>

\* add request: onerror, reject; the transaction aborts; the catch logs
AddError ==
  /\ \E i \in 1..Len(txs) :
       /\ txs[i].kind = "add"
       /\ txs[i].st = "pending"
       /\ CanStart(txs, i)
       /\ txs' = Remove(txs, i)
       /\ lastEvent' = [Event("addError") EXCEPT
                          !.kind = "add", !.log = <<"DB add error">>,
                          !.item = txs[i].item, !.before = records]
  /\ UNCHANGED <<disk, db, connections, initState, galleryGrid, uploadPreview, readers>>
  /\ UNCHANGED <<handed, clicks, opens, reported, lastWrite, assigned, dirty>>

\* delete request: onsuccess, resolve(); the click handler resumes
DeleteSuccess ==
  /\ \E i \in 1..Len(txs) :
       /\ txs[i].kind = "delete"
       /\ txs[i].st = "pending"
       /\ CanStart(txs, i)
       /\ records' = Deleted(records, txs[i].id)
       /\ txs' = AfterDelete([txs EXCEPT ![i].st = "succeeded", ![i].undo = Started])
       /\ reported' = Deleted(reported, txs[i].id)
       /\ lastEvent' = [Event("deleteSuccess") EXCEPT
                          !.kind = "delete", !.id = txs[i].id, !.ops = <<"getAllImages">>,
                          !.before = records]
  /\ lastWrite' = "delete"
  /\ UNCHANGED <<databases, dbVersion, storeNames, keyGen>>
  /\ UNCHANGED <<db, connections, initState, galleryGrid, uploadPreview, readers>>
  /\ UNCHANGED <<handed, clicks, opens, assigned, dirty>>

\* delete request: onerror, reject; the await throws in the click handler
DeleteError ==
  /\ \E i \in 1..Len(txs) :
       /\ txs[i].kind = "delete"
       /\ txs[i].st = "pending"
       /\ CanStart(txs, i)
       /\ txs' = Remove(txs, i)
       /\ lastEvent' = [Event("deleteError") EXCEPT
                          !.kind = "delete", !.id = txs[i].id, !.rejected = TRUE,
                          !.before = records]
  /\ UNCHANGED <<disk, db, connections, initState, galleryGrid, uploadPreview, readers>>
  /\ UNCHANGED <<handed, clicks, opens, reported, lastWrite, assigned, dirty>>

\* clear request: onsuccess, resolve(); the click handler resumes
ClearSuccess ==
  /\ \E i \in 1..Len(txs) :
       /\ txs[i].kind = "clear"
       /\ txs[i].st = "pending"
       /\ CanStart(txs, i)
       /\ txs' = AfterClear([txs EXCEPT ![i].st = "succeeded", ![i].undo = Started])
  /\ records' = {}
  /\ reported' = {}
  /\ lastWrite' = "clear"
  /\ lastEvent' = [Event("clearSuccess") EXCEPT
                     !.kind = "clear", !.ops = <<"getAllImages">>, !.before = records]
  /\ UNCHANGED <<databases, dbVersion, storeNames, keyGen>>
  /\ UNCHANGED <<db, connections, initState, galleryGrid, uploadPreview, readers>>
  /\ UNCHANGED <<handed, clicks, opens, assigned, dirty>>

\* clear request: onerror, reject; the await throws in the click handler
ClearError ==
  /\ \E i \in 1..Len(txs) :
       /\ txs[i].kind = "clear"
       /\ txs[i].st = "pending"
       /\ CanStart(txs, i)
       /\ txs' = Remove(txs, i)
  /\ lastEvent' = [Event("clearError") EXCEPT
                     !.kind = "clear", !.rejected = TRUE, !.before = records]
  /\ UNCHANGED <<disk, db, connections, initState, galleryGrid, uploadPreview, readers>>
  /\ UNCHANGED <<handed, clicks, opens, reported, lastWrite, assigned, dirty>>

\* a readwrite transaction whose request succeeded commits; the code listens
\* to no transaction event
TxCommit ==
  /\ \E i \in 1..Len(txs) :
       /\ txs[i].st = "succeeded"
       /\ txs' = Remove(txs, i)
       /\ lastEvent' = [Event("commit") EXCEPT
                          !.kind = txs[i].kind, !.id = txs[i].id,
                          !.item = txs[i].item, !.before = txs[i].undo.records]
  /\ UNCHANGED <<disk, db, connections, initState, galleryGrid, uploadPreview, readers>>
  /\ UNCHANGED <<handed, clicks, opens, reported, lastWrite, assigned, dirty>>

\* the commit fails: the transaction aborts and its writes are rolled back;
\* the promise has resolved already and nothing tells the page
TxAbort ==
  /\ \E i \in 1..Len(txs) :
       /\ txs[i].st = "succeeded"
       /\ records' = txs[i].undo.records
       /\ keyGen' = txs[i].undo.keyGen
       /\ txs' = Remove(txs, i)
       /\ lastEvent' = [Event("abort") EXCEPT
                          !.kind = txs[i].kind, !.id = txs[i].id,
                          !.item = txs[i].item, !.before = txs[i].undo.records]
  /\ UNCHANGED <<databases, dbVersion, storeNames>>
  /\ UNCHANGED <<db, connections, initState, galleryGrid, uploadPreview, readers>>
  /\ UNCHANGED <<handed, clicks, opens, reported, lastWrite, assigned, dirty>>

\* getAll request: onsuccess, resolve(req.result); refreshGallery resumes,
\* sorts and renders
GetAllSuccess ==
  /\ \E i \in 1..Len(txs) :
       /\ txs[i].kind = "getAll"
       /\ CanStart(txs, i)
       /\ txs' = Remove(txs, i)
  /\ LET items == KeyOrder(records)
     IN /\ galleryGrid' = Filled(Emptied(galleryGrid), SortNewestFirst(items))
        /\ lastEvent' = [Event("getAllSuccess") EXCEPT !.kind = "getAll", !.items = items]
  /\ dirty' = FALSE
  /\ UNCHANGED <<disk, db, connections, initState, uploadPreview, readers>>
  /\ UNCHANGED <<handed, clicks, opens, reported, lastWrite, assigned>>

\* galleryGrid.innerHTML = '' placed before the await
ViewCleared(view) == [msg |-> "", cards |-> <<>>]

\* refreshGallery touches galleryGrid only after await getAllImages(): when
\* the await throws, the view is the one it was
ViewOnReadFailure(view) == view

\* getAll request: onerror, reject; the await throws in refreshGallery, whose
\* promise no caller handles
GetAllError ==
  /\ \E i \in 1..Len(txs) :
       /\ txs[i].kind = "getAll"
       /\ CanStart(txs, i)
       /\ txs' = Remove(txs, i)
  /\ dirty' = TRUE
  /\ galleryGrid' = ViewOnReadFailure(galleryGrid)
  /\ lastEvent' = [Event("getAllError") EXCEPT !.kind = "getAll", !.rejected = TRUE]
  /\ UNCHANGED <<disk, db, connections, initState, uploadPreview, readers>>
  /\ UNCHANGED <<handed, clicks, opens, reported, lastWrite, assigned>>

(* ---------------- the page ---------------- *)

Next ==
  \/ OpenDBSuccess
  \/ OpenDBError
  \/ HandleFiles
  \/ PreviewLoad
  \/ ClickDelete
  \/ ClickClearAll
  \/ AddSuccess
  \/ AddError
  \/ DeleteSuccess
  \/ DeleteError
  \/ ClearSuccess
  \/ ClearError
  \/ TxCommit
  \/ TxAbort
  \/ GetAllSuccess
  \/ GetAllError

Spec == Init /\ [][Next]_vars

(* ---------------- openDB on its own ---------------- *)
\* openDB called up to MaxOpens times in a row on any storage an earlier
\* session can have left, with nothing else running.

InitOpen ==
  /\ \/ FreshDisk
     \/ \E S \in RecordSets, k \in 1..(MaxPriorId + 1) : UsedDisk(S, k)
  /\ FreshPage
  /\ initState = "off"
  /\ opens = 0
  /\ lastEvent = Event("load")

\* openDB(): req.onsuccess, resolve(db)
CallOpenDBSuccess ==
  /\ initState = "off"
  /\ opens < MaxOpens
  /\ opens' = opens + 1
  /\ OpenedDisk
  /\ OpenedHandle
  /\ lastEvent' = Event("openDBResolved")
  /\ UNCHANGED <<initState, txs, galleryGrid, uploadPreview, readers>>
  /\ UNCHANGED <<handed, clicks, reported, lastWrite, assigned, dirty>>

\* openDB(): req.onerror, reject(e.target.error)
CallOpenDBError ==
  /\ initState = "off"
  /\ opens < MaxOpens
  /\ opens' = opens + 1
  /\ lastEvent' = [Event("openDBRejected") EXCEPT !.rejected = TRUE]
  /\ UNCHANGED <<disk, page>>
  /\ UNCHANGED <<handed, clicks, reported, lastWrite, assigned, dirty>>

NextOpen ==
  \/ CallOpenDBSuccess
  \/ CallOpenDBError

SpecOpen == InitOpen /\ [][NextOpen]_vars

(* ---------------- rendering of names on its own ---------------- *)
\* refreshGallery on a store holding one record whose name is any string of
\* up to MaxNameLen characters, the five characters escapeHtml replaces among
\* them, or the name <script>.

NameChars == {"&", "<", ">", "\"", "'", "a", ";"}

ScriptName == <<"<", "s", "c", "r", "i", "p", "t", ">">>

Names == UNION { [1..k -> NameChars] : k \in 0..MaxNameLen } \cup {ScriptName}

\* the page after init: openDB resolved, refreshGallery awaits getAllImages
InitEscape ==
  /\ \E n \in Names :
       UsedDisk({[id |-> 1, name |-> n, blob |-> "blobA", created |-> 1]}, 2)
  /\ db = 1
  /\ connections = 1
  /\ initState = "ready"
  /\ txs = getAllImages(<<>>)
  /\ galleryGrid = [msg |-> "", cards |-> <<>>]
  /\ uploadPreview = 0
  /\ readers = 0
  /\ handed = 0
  /\ clicks = 0
  /\ opens = 1
  /\ reported = records
  /\ lastWrite = "none"
  /\ assigned = keyGen - 1
  /\ dirty = FALSE
  /\ lastEvent = [Event("openDBSuccess") EXCEPT !.ops = <<"getAllImages">>]

NextEscape ==
  \/ GetAllSuccess
  \/ GetAllError

SpecEscape == InitEscape /\ [][NextEscape]_vars

(* ---------------- claims ---------------- *)

\* nothing of the page is in flight against the store
Settled == initState = "ready" /\ txs = <<>>

\* what galleryGrid shows for the records S
ViewOf(S) == Render(SortNewestFirst(KeyOrder(S)))

\* C1: with no delete or clear called, the list a getAllImages resolves with
\* holds exactly the records the store started with and the records whose
\* addImageBlob resolved, no record missing and none extra, and no two of the
\* listed records share an id.
C1_InsertsThenListAll ==
  (lastEvent.type = "getAllSuccess" /\ clicks = 0) =>
    LET items == lastEvent.items
    IN /\ ToSet(items) = reported
       /\ \A i, j \in 1..Len(items) : items[i].id = items[j].id => i = j

\* C2: when the transaction of a deleteImageById(id) that resolved has ended,
\* the store holds the records it held when the delete started, all fields
\* unchanged, except the record with that id, which is gone; with no such
\* record the store is as it was.
C2_DeleteRemovesExactlyThatRecord ==
  (lastEvent.type \in {"commit", "abort"} /\ lastEvent.kind = "delete") =>
    records = { r \in lastEvent.before : r.id # lastEvent.id }

\* C3: a getAllImages that resolves after clearAllImages resolved, no other
\* write having resolved since, resolves with the empty list.
C3_ClearThenListAllEmpty ==
  (lastEvent.type = "getAllSuccess" /\ lastWrite = "clear") =>
    lastEvent.items = <<>>

\* the record of the listed items that a card was rendered from
ItemOf(card, items) == CHOOSE r \in ToSet(items) : r.id = Number(card.dataId)

\* C4: the cards a refresh renders are the records its getAllImages resolved
\* with, one card each, in the order of created descending: of two adjacent
\* cards the first has created >= the second.
C4_RenderNewestFirst ==
  lastEvent.type = "getAllSuccess" =>
    LET items == lastEvent.items
        cards == galleryGrid.cards
    IN /\ Len(cards) = Len(items)
       /\ { Number(cards[i].dataId) : i \in 1..Len(cards) } = { r.id : r \in ToSet(items) }
       /\ \A i \in 1..Len(cards) : cards[i] = Card(ItemOf(cards[i], items))
       /\ \A i \in 1..(Len(cards) - 1) :
            ItemOf(cards[i], items).created >= ItemOf(cards[i + 1], items).created

\* records created at 100, 300, 200 are rendered as 300, 200, 100
C4_Witness ==
  /\ lastEvent.type = "getAllSuccess"
  /\ [i \in 1..Len(lastEvent.items) |-> lastEvent.items[i].created] = <<100, 300, 200>>
  /\ [i \in 1..Len(galleryGrid.cards) |-> Number(galleryGrid.cards[i].dataId)] = <<2, 3, 1>>

\* C5: handleFiles calls addImageBlob for every image file of the batch,
\* whatever becomes of the others, and once nothing is in flight (no delete or
\* clear called, the last refresh rendered) the gallery shows exactly the
\* records whose insert resolved, next to those the store started with.
C5_BatchShowsResolvedInserts ==
  /\ lastEvent.type = "handleFiles" =>
       Len(lastEvent.ops) = Len(SelectSeq(lastEvent.files, LAMBDA f : StartsWith(f.type, ImagePrefix)))
  /\ (Settled /\ clicks = 0 /\ ~dirty) =>
       ToSet(galleryGrid.cards) = { Card(r) : r \in reported }

C7_NoStoreCallAfterInitFailure ==
  initState = "failed" =>
    /\ galleryGrid.msg = "Browser storage is not available"
    /\ lastEvent.ops = <<>>

\* C8: a Delete or Clear all click the user cancels calls no store function
\* and leaves the store, the transactions and the gallery as they are; one the
\* user confirms calls deleteImageById (clearAllImages) and nothing else, and
\* the refresh is called only by the task in which that promise resolves,
\* never by the one in which it rejects.
C8_ConfirmGate ==
  [][ LET ev == lastEvent'
          click == ev.type \in {"deleteClick", "clearAllClick"}
      IN /\ (click /\ ~ev.confirmed) =>
              /\ ev.ops = <<>>
              /\ UNCHANGED <<disk, txs, galleryGrid>>
         /\ (click /\ ev.confirmed) =>
              /\ ev.ops = <<IF ev.type = "deleteClick" THEN "deleteImageById" ELSE "clearAllImages">>
              /\ UNCHANGED <<disk, galleryGrid>>
              /\ db # 0 =>
                   /\ Len(txs') = Len(txs) + 1
                   /\ txs'[Len(txs')].kind = (IF ev.type = "deleteClick" THEN "delete" ELSE "clear")
                   /\ txs'[Len(txs')].id = ev.id
         /\ ev.type \in {"deleteSuccess", "clearSuccess"} => ev.ops = <<"getAllImages">>
         /\ ev.type \in {"deleteError", "clearError"} => ev.ops = <<>> /\ Len(txs') < Len(txs)
    ]_vars

\* the user has cancelled a Delete click on a card of a non-empty store
C8_Witness ==
  /\ lastEvent.type = "deleteClick"
  /\ ~lastEvent.confirmed
  /\ lastEvent.id \in { r.id : r \in records }
  /\ txs = <<>>

\* C9: of the files handed to handleFiles, those whose type does not start
\* with 'image/' cause no store call, no FileReader, no log entry and no
\* change of store or gallery; each image file of the same batch gets its
\* reader and its addImageBlob call, in order.
C9_OnlyImagesAreProcessed ==
  [][ lastEvent'.type = "handleFiles" =>
        LET images == SelectSeq(lastEvent'.files, LAMBDA f : StartsWith(f.type, ImagePrefix))
            n == Len(images)
        IN /\ lastEvent'.ops = [i \in 1..n |-> "addImageBlob"]
           /\ Len(lastEvent'.log) <= n
           /\ readers' = readers + n
           /\ UNCHANGED <<disk, galleryGrid, uploadPreview>>
           /\ db # 0 =>
                /\ Len(txs') = Len(txs) + n
                /\ lastEvent'.log = <<>>
                /\ \A i \in 1..n :
                     /\ txs'[Len(txs) + i].kind = "add"
                     /\ txs'[Len(txs) + i].item.name = images[i].name
                     /\ txs'[Len(txs) + i].item.blob = images[i].blob
    ]_vars

\* a text file and an image file were handed over together with the store open
C9_Witness ==
  /\ lastEvent.type = "handleFiles"
  /\ db # 0
  /\ Len(lastEvent.files) = 2
  /\ ~StartsWith(lastEvent.files[1].type, ImagePrefix)
  /\ StartsWith(lastEvent.files[2].type, ImagePrefix)
  /\ Len(lastEvent.ops) = 1

\* C10: an openDB call leaves at most the one database and the one store and
\* never changes the records; called when the database exists, as the second
\* of two calls in a row is, it changes nothing in storage.
C10_OpenAgainKeepsStore ==
  [][ opens' = opens + 1 =>
        /\ databases' \subseteq {DB_NAME}
        /\ storeNames' \subseteq {STORE_NAME}
        /\ records' = records
        /\ (dbVersion = DB_VERSION \/ lastEvent.type = "openDBResolved") => UNCHANGED disk
    ]_vars

\* openDB has resolved twice in a row on a store that holds records
C10_Witness ==
  /\ opens = 2
  /\ connections = 2
  /\ lastEvent.type = "openDBResolved"
  /\ Cardinality(records) = 2

\* the add, delete or clear transaction the last event ended
Ended(kind) == lastEvent.type \in {"commit", "abort"} /\ lastEvent.kind = kind

\* C11: what addImageBlob reports agrees with what its transaction ends as.
\* An insert that rejected has left the store as it found it; with no delete
\* or clear called, every record a getAllImages lists is one the store
\* started with or one whose addImageBlob resolved; and a transaction whose
\* addImageBlob resolved ends committed, with the new record in the store.
C11_InsertReportMatchesOutcome ==
  /\ lastEvent.type = "addError" => records = lastEvent.before
  /\ (lastEvent.type = "getAllSuccess" /\ clicks = 0) =>
       ToSet(lastEvent.items) \subseteq reported
  /\ Ended("add") =>
       /\ lastEvent.type = "commit"
       /\ \E r \in records : r.id \notin { x.id : x \in lastEvent.before }

\* C12: clearAllImages is all or nothing.  A clear that rejected has left the
\* records as they were, and a transaction whose clearAllImages resolved ends
\* committed, with no record left in the store.
C12_ClearAllOrNothing ==
  /\ lastEvent.type = "clearError" => records = lastEvent.before
  /\ lastEvent.type = "clearSuccess" => records = {}
  /\ Ended("clear") => (lastEvent.type = "commit" /\ records = {})

\* C13: every failure of a store function the page calls is passed to
\* console.error by the code and no rejection is left without a handler:
\* a task in which an add, getAll, delete or clear request failed, or in which
\* a store function was called with db unset, logs and ends handled.
C13_EveryFailureIsLogged ==
  /\ ~lastEvent.rejected
  /\ lastEvent.type \in {"addError", "getAllError", "deleteError", "clearError"} =>
       lastEvent.log # <<>>
  /\ (db = 0 /\ lastEvent.ops # <<>> /\
      lastEvent.type \in {"handleFiles", "deleteClick", "clearAllClick"}) =>
       Len(lastEvent.log) = Len(lastEvent.ops)

\* C14: a step in which the getAllImages of refreshGallery rejects leaves
\* galleryGrid exactly as it was, with no card added, removed or cleared and
\* no placeholder written, and leaves the storage unchanged.
C14_FailedRefreshKeepsView ==
  [][lastEvent'.type = "getAllError" => UNCHANGED <<galleryGrid, disk>>]_vars

\* a refresh failed while the view showed cards
C14_Witness ==
  /\ lastEvent.type = "getAllError"
  /\ galleryGrid.cards # <<>>
  /\ galleryGrid # ViewOf(records)

\* the five entities escapeHtml emits
Entities ==
  { <<"&", "a", "m", "p", ";">>, <<"&", "l", "t", ";">>, <<"&", "g", "t", ";">>,
    <<"&", "q", "u", "o", "t", ";">>, <<"&", "#", "3", "9", ";">> }

\* text that is inert in element content and in a quoted attribute value
Inert(s) ==
  \A i \in 1..Len(s) :
    /\ s[i] \notin {"<", ">", "\"", "'"}
    /\ s[i] = "&" =>
         \E e \in Entities :
           /\ i + Len(e) - 1 <= Len(s)
           /\ SubSeq(s, i, i + Len(e) - 1) = e

\* C15: for every file name, the text refreshGallery puts into the alt
\* attribute and into the name cell of a card holds no raw <, >, " or ' and
\* no & other than the first character of one of the five entities.
C15_RenderedNamesAreEscaped ==
  \A i \in 1..Len(galleryGrid.cards) :
    /\ Inert(galleryGrid.cards[i].alt)
    /\ Inert(galleryGrid.cards[i].label)

\* a name made of the five special characters has been rendered
C15_Witness ==
  /\ lastEvent.type = "getAllSuccess"
  /\ Len(galleryGrid.cards) = 1
  /\ lastEvent.items[1].name = <<"&", "<", ">", "\"", "'">>
  /\ galleryGrid.cards[1].label =
       <<"&", "a", "m", "p", ";">> \o <<"&", "l", "t", ";">> \o <<"&", "g", "t", ";">>
         \o <<"&", "q", "u", "o", "t", ";">> \o <<"&", "#", "3", "9", ";">>

\* C16: openDB called again while db holds a handle returns that handle and
\* has no side effect: however often openDB has been called, at most one
\* connection has been opened and db, once set, is that first connection.
C16_OpenAgainReturnsExistingHandle ==
  /\ connections <= 1
  /\ db \in {0, 1}

\* C17: the id an add request resolves with is greater than every id assigned
\* before it, the ids of records deleted or cleared since and the ids of
\* earlier sessions included, and so is the id of no record in the store: ids
\* strictly increase in insertion order and none is used twice.
C17_IdsStrictlyIncreasing ==
  [][lastEvent'.type = "addSuccess" =>
       /\ lastEvent'.id > assigned
       /\ \A r \in records : lastEvent'.id > r.id]_vars

\* C18: every render is a from-scratch image of the list getAllImages
\* resolved with.  After a render the view is the placeholder with no card
\* exactly when the list is empty, and otherwise it is no placeholder and
\* exactly one card for each listed record, none for anything else; in no
\* state does the view hold the placeholder together with a card.
C18_RenderFromScratch ==
  /\ galleryGrid.msg = "" \/ galleryGrid.cards = <<>>
  /\ lastEvent.type = "getAllSuccess" =>
       LET items == lastEvent.items
           cards == galleryGrid.cards
       IN /\ items = <<>> <=> galleryGrid.msg = "No photos yet"
          /\ Len(cards) = Len(items)
          /\ \A k \in 1..Len(items) :
               Cardinality({ i \in 1..Len(cards) : cards[i] = Card(items[k]) }) = 1

\* a render of the emptied store has replaced cards by the placeholder
C18_Witness ==
  /\ lastEvent.type = "getAllSuccess"
  /\ lastEvent.items = <<>>
  /\ lastWrite \in {"clear", "delete"}
  /\ galleryGrid = [msg |-> "No photos yet", cards |-> <<>>]

\* the records other than the one with this id
Others(S, id) == { r \in S : r.id # id }

\* the view is not the image of the store the delete request works on
StaleForDelete == galleryGrid # ViewOf(lastEvent.before)

\* C19 as stated: after a confirmed Delete click on a card of a stale view,
\* the store is the one the delete found without the record of that card's
\* id, nothing else removed or changed, when the click handler's await
\* settles and when the transaction ends, and the handler calls
\* refreshGallery.
C19_StaleDeleteRemovesItsRecordThenRefresh ==
  /\ (lastEvent.type \in {"deleteSuccess", "deleteError"} /\ StaleForDelete) =>
       /\ records = Others(lastEvent.before, lastEvent.id)
       /\ lastEvent.ops = <<"getAllImages">>
  /\ (Ended("delete") /\ StaleForDelete) =>
       records = Others(lastEvent.before, lastEvent.id)

\* C19, amended: a confirmed Delete click passes the id of the clicked card
\* to deleteImageById, and a card's id never denotes a record other than the
\* one the card shows.  When the delete request succeeds the store is the one
\* it found without the record of that id, and refreshGallery is called in
\* the same task; when the request fails the store is as it was and no
\* refresh is called.  However the transaction ends, committed or aborted,
\* every record other than the one of that id is in the store as before.
C19_DeleteTouchesOnlyItsRecord ==
  /\ \A i \in 1..Len(galleryGrid.cards) :
       LET id == Number(galleryGrid.cards[i].dataId)
       IN \A r \in records : r.id = id => Card(r) = galleryGrid.cards[i]
  /\ (lastEvent.type = "deleteClick" /\ lastEvent.confirmed /\ db # 0) =>
       /\ txs[Len(txs)] = NewTx("delete", NoItem, lastEvent.id)
       /\ \E i \in 1..Len(galleryGrid.cards) :
            Number(galleryGrid.cards[i].dataId) = lastEvent.id
  /\ lastEvent.type = "deleteSuccess" =>
       /\ records = Others(lastEvent.before, lastEvent.id)
       /\ lastEvent.ops = <<"getAllImages">>
       /\ txs[Len(txs)].kind = "getAll"
  /\ lastEvent.type = "deleteError" =>
       /\ records = lastEvent.before
       /\ lastEvent.ops = <<>>
  /\ Ended("delete") =>
       Others(records, lastEvent.id) = Others(lastEvent.before, lastEvent.id)

\* the delete of a card's record succeeded while the view was stale: an
\* insert had resolved that the view does not show, and the record of the
\* card was still in the store
C19_Witness ==
  /\ lastEvent.type = "deleteSuccess"
  /\ StaleForDelete
  /\ lastWrite = "delete"
  /\ \E r \in lastEvent.before : r.id = lastEvent.id
  /\ \E r \in lastEvent.before : r.id > lastEvent.id /\ r \in records
  /\ Cardinality(lastEvent.before) > Len(galleryGrid.cards)

\* C20: every image file handleFiles accepts ends, once its insert has
\* settled, in one of two outcomes and no other.  Either addImageBlob
\* resolved: refreshGallery is called, nothing is logged, and when the
\* transaction has ended a new record with the file's name is in the store.
\* Or it rejected: the error is logged once, no refresh is called and the
\* store is as it was.  With db unset every accepted file of the batch ends
\* in the second outcome, with no transaction created.
C20_AcceptedFileOutcome ==
  /\ lastEvent.type = "addSuccess" =>
       /\ lastEvent.ops = <<"getAllImages">>
       /\ lastEvent.log = <<>>
  /\ Ended("add") =>
       \E r \in records :
         /\ r.name = lastEvent.item.name
         /\ r.id \notin { x.id : x \in lastEvent.before }
  /\ lastEvent.type = "addError" =>
       /\ lastEvent.log = <<"DB add error">>
       /\ lastEvent.ops = <<>>
       /\ records = lastEvent.before
  /\ (lastEvent.type = "handleFiles" /\ db = 0) =>
       /\ lastEvent.log = [i \in 1..Len(Accepted(lastEvent.files)) |-> "DB add error"]
       /\ txs = <<>>

====
